---- MODULE Spec2Model ----
(***************************************************************************)
(* Model of src/server.js: the wallet, payment and contest-join handlers   *)
(* of the fantasy contest server, as concurrently running request          *)
(* handlers over the persisted User, Contest, Team and Payment documents.  *)
(* Every await of a handler is one step; steps of different requests       *)
(* interleave freely, as they do on the Node event loop.                   *)
(***************************************************************************)
EXTENDS Integers, FiniteSets, Sequences, TLC

\* ------------------------------------------------------------------ bounds

\* Number of requests the server receives in one behaviour.
MaxReqs == 3

\* Number of requests in a behaviour of the join-and-withdraw specification.
MaxDebitReqs == 2

\* Number of requests in a behaviour of the payment specification.
MaxPayReqs == 3

\* Number of requests in a behaviour of the team-shape specification.
MaxRosterReqs == 2

\* Number of requests in a behaviour of the leaderboard specification.
MaxBoardReqs == 3

Reqs == 1..MaxReqs

\* ------------------------------------------------------- program constants

\* balance given to a user at registration (server.js line 142)
InitialBalance == 100

\* smallest amount /api/withdraw accepts (server.js line 383)
MinWithdrawal == 100

\* most Teams a leaderboard query returns (server.js line 366)
LeaderboardLimit == 100

\* ------------------------------------------------------------- input sets

Accounts == {"u1", "u2"}

\* Contest documents are written by content management only; the handlers
\* never create one.  c1 is an open contest with a single slot, c2 a closed
\* contest, and "cX" an id no contest has.
Contests == {"c1", "c2"}
ContestIds == Contests \cup {"cX"}

contestDocs ==
    [c \in Contests |->
        IF c = "c1"
        THEN [id |-> c, entryFee |-> 100, maxTeams |-> 1, isActive |-> TRUE]
        ELSE [id |-> c, entryFee |-> 50, maxTeams |-> 2, isActive |-> FALSE]]

WithdrawAmounts == {50, 100, 200}
OrderAmounts == {500}
PaymentIds == {"pay_A"}

\* The team a create-team request carries: players, captain, viceCaptain
\* (teamName and matchId are stored as given and never read).
NullBody == [players |-> {}, captain |-> "null", viceCaptain |-> "null"]

ValidBody == [players |-> {"p1", "p2"}, captain |-> "p1", viceCaptain |-> "p2"]

TeamBodies == {ValidBody}

\* also a team whose captain is its vice-captain, and one whose captain is
\* not among its players
RosterBodies ==
    {ValidBody,
     [players |-> {"p1", "p2"}, captain |-> "p1", viceCaptain |-> "p1"],
     [players |-> {"p1", "p2"}, captain |-> "p3", viceCaptain |-> "p2"]}

Routes == {"create-team", "withdraw", "verify-payment", "create-order"}
DebitRoutes == {"create-team", "withdraw"}
PayRoutes == {"create-order", "verify-payment"}
TeamRoutes == {"create-team"}

\* ------------------------------------------------------------------ state

VARIABLES
    balance,        \* User.balance of every account
    totalContests,  \* User.totalContests of every account
    joinedTeams,    \* Contest.joinedTeams of every contest
    teams,          \* the Team collection
    payments,       \* the Payment collection
    req             \* the request handlers: position, inputs, locals, response

vars == <<balance, totalContests, joinedTeams, teams, payments, req>>

persisted == <<balance, totalContests, joinedTeams, teams, payments>>

\* What Contest.findById / Payment.findOne yield when nothing matches.
NullContest ==
    [id |-> "null", entryFee |-> 0, maxTeams |-> 0, joinedTeams |-> 0,
     isActive |-> FALSE]

NullPayment ==
    [orderId |-> 0, userId |-> "null", amount |-> 0, status |-> "null",
     paymentId |-> "null"]

IdleReq ==
    [route |-> "none", pc |-> "idle", user |-> "null", userBalance |-> 0,
     contestId |-> "null", amount |-> 0, orderId |-> 0, paymentId |-> "null",
     contest |-> NullContest, payment |-> NullPayment, resp |-> "none",
     team |-> NullBody, createdAt |-> 0, result |-> <<>>]

Init ==
    /\ balance = [a \in Accounts |-> InitialBalance]
    /\ totalContests = [a \in Accounts |-> 0]
    /\ joinedTeams = [c \in Contests |-> 0]
    /\ teams = {}
    /\ payments = {}
    /\ req = [r \in Reqs |-> IdleReq]

\* ---------------------------------------------------------------- helpers

\* a lookup that falls back to the first contest when the id matches none
FindContestFirst(cid) ==
    LET c == IF cid \in Contests THEN cid ELSE "c1" IN
    [id |-> c,
     entryFee |-> contestDocs[c].entryFee,
     maxTeams |-> contestDocs[c].maxTeams,
     joinedTeams |-> joinedTeams[c],
     isActive |-> contestDocs[c].isActive]

\* Contest.findById(contestId): the stored document, or null
FindContest(cid) ==
    IF cid \in Contests
    THEN [id |-> cid,
          entryFee |-> contestDocs[cid].entryFee,
          maxTeams |-> contestDocs[cid].maxTeams,
          joinedTeams |-> joinedTeams[cid],
          isActive |-> contestDocs[cid].isActive]
    ELSE NullContest

\* a lookup that drops the orderId filter
FindPaymentAny(oid) ==
    IF payments # {}
    THEN CHOOSE p \in payments : TRUE
    ELSE NullPayment

\* Payment.findOne({ orderId }): the stored document, or null
FindPayment(oid) ==
    IF \E p \in payments : p.orderId = oid
    THEN CHOOSE p \in payments : p.orderId = oid
    ELSE NullPayment

\* the balance test with its operands exchanged
InsufficientBalanceSwapped(userBalance, amount) == amount < userBalance

\* the balance test of create-team and withdraw: req.user.balance < amount
InsufficientBalance(userBalance, amount) == userBalance < amount

\* the minimum test of withdraw: amount < 100
BelowMinimum(amount) == amount < MinWithdrawal

\* Date.now(): later than the creation time of every Team built so far
Now == 1 + Cardinality({q \in Reqs : req[q].createdAt > 0})

\* new Team({ userId, contestId, players, captain, viceCaptain }) with the
\* schema defaults totalPoints 0 and createdAt
NewTeam(r) ==
    [id |-> r, userId |-> req[r].user, contestId |-> req[r].contestId,
     players |-> req[r].team.players, captain |-> req[r].team.captain,
     viceCaptain |-> req[r].team.viceCaptain, totalPoints |-> 0,
     createdAt |-> req[r].createdAt]

\* the sequences that hold every element of S once
Orderings(S) ==
    {s \in [1..Cardinality(S) -> S] :
        \A i, j \in 1..Cardinality(S) : i # j => s[i] # s[j]}

Respond(r, msg) == [req EXCEPT ![r].pc = "done", ![r].resp = msg]

Goto(r, label) == [req EXCEPT ![r].pc = label]

\* ------------------------------------------------------------ authenticate

\* A request arrives and the auth middleware loads its user: req.user is a
\* copy of the User document as it is now.  Requests are numbered in the
\* order in which they are authenticated.
Receive(r, routes, limit, bodies) ==
    /\ r <= limit
    /\ req[r].pc = "idle"
    /\ \A q \in Reqs : q < r => req[q].pc # "idle"
    /\ \E u \in Accounts, rt \in routes :
         \E cid \in (IF rt = "create-team" THEN ContestIds ELSE {"null"}),
            amt \in (IF rt = "withdraw" THEN WithdrawAmounts
                     ELSE IF rt = "create-order" THEN OrderAmounts ELSE {0}),
            oid \in (IF rt = "verify-payment"
                     THEN {p.orderId : p \in payments} \cup {0} ELSE {0}),
            pid \in (IF rt = "verify-payment" THEN PaymentIds ELSE {"null"}),
            tm \in (IF rt = "create-team" THEN bodies ELSE {NullBody}) :
           req' = [req EXCEPT ![r] =
                     [IdleReq EXCEPT !.route = rt, !.pc = "handler",
                                     !.user = u, !.userBalance = balance[u],
                                     !.contestId = cid, !.amount = amt,
                                     !.orderId = oid, !.paymentId = pid,
                                     !.team = tm]]
    /\ UNCHANGED persisted

Authenticate(r) == Receive(r, Routes, MaxReqs, TeamBodies)

\* the same, for a client that only joins contests and withdraws
AuthenticateDebit(r) == Receive(r, DebitRoutes, MaxDebitReqs, TeamBodies)

\* the same, for a client that only creates and confirms orders
AuthenticatePay(r) == Receive(r, PayRoutes, MaxPayReqs, TeamBodies)

\* the same, for clients that only join, with teams of every shape
AuthenticateRoster(r) == Receive(r, TeamRoutes, MaxRosterReqs, RosterBodies)

\* the same, for clients that only join, beside leaderboard readers
AuthenticateBoard(r) == Receive(r, TeamRoutes, MaxBoardReqs, TeamBodies)

\* ------------------------------------------------------------ create-order

\* create-order crediting the amount as soon as the order is made
CreateOrderSaveCredits(r) ==
    /\ req[r].route = "create-order"
    /\ req[r].pc = "handler"
    /\ payments' = payments \cup
         {[orderId |-> r, userId |-> req[r].user, amount |-> req[r].amount,
           status |-> "created", paymentId |-> "null"]}
    /\ balance' = [balance EXCEPT ![req[r].user] = @ + req[r].amount]
    /\ req' = [Respond(r, "order created") EXCEPT ![r].orderId = r]
    /\ UNCHANGED <<totalContests, joinedTeams, teams>>

\* The gateway returns a new order id and the Payment is saved as 'created'.
CreateOrderSave(r) ==
    /\ req[r].route = "create-order"
    /\ req[r].pc = "handler"
    /\ payments' = payments \cup
         {[orderId |-> r, userId |-> req[r].user, amount |-> req[r].amount,
           status |-> "created", paymentId |-> "null"]}
    /\ req' = [Respond(r, "order created") EXCEPT ![r].orderId = r]
    /\ UNCHANGED <<balance, totalContests, joinedTeams, teams>>

\* ---------------------------------------------------------- verify-payment

VerifyFind(r) ==
    /\ req[r].route = "verify-payment"
    /\ req[r].pc = "handler"
    /\ LET payment == FindPayment(req[r].orderId) IN
         IF payment = NullPayment
         THEN req' = Respond(r, "Payment not found")
         ELSE req' = [Goto(r, "paymentSave") EXCEPT ![r].payment = payment]
    /\ UNCHANGED persisted

VerifySave(r) ==
    /\ req[r].route = "verify-payment"
    /\ req[r].pc = "paymentSave"
    /\ payments' =
         {IF p.orderId = req[r].payment.orderId
          THEN [p EXCEPT !.paymentId = req[r].paymentId, !.status = "completed"]
          ELSE p : p \in payments}
    /\ req' = Goto(r, "credit")
    /\ UNCHANGED <<balance, totalContests, joinedTeams, teams>>

VerifyCredit(r) ==
    /\ req[r].route = "verify-payment"
    /\ req[r].pc = "credit"
    /\ balance' = [balance EXCEPT ![req[r].user] = @ + req[r].payment.amount]
    /\ req' = Respond(r, "Payment successful")
    /\ UNCHANGED <<totalContests, joinedTeams, teams, payments>>

\* ------------------------------------------------------------- create-team

\* create-team saving the Team before it tests the balance
CreateTeamFindSaveFirst(r) ==
    /\ req[r].route = "create-team"
    /\ req[r].pc = "handler"
    /\ LET contest == FindContest(req[r].contestId) IN
         IF contest = NullContest
         THEN req' = Respond(r, "TypeError") /\ UNCHANGED teams
         ELSE /\ teams' = teams \cup {[NewTeam(r) EXCEPT !.createdAt = Now]}
              /\ IF req[r].userBalance < contest.entryFee
                 THEN req' = [Respond(r, "Insufficient balance")
                                EXCEPT ![r].contest = contest,
                                       ![r].createdAt = Now]
                 ELSE req' = [Goto(r, "userInc") EXCEPT ![r].contest = contest,
                                                        ![r].createdAt = Now]
    /\ UNCHANGED <<balance, totalContests, joinedTeams, payments>>

CreateTeamFind(r) ==
    /\ req[r].route = "create-team"
    /\ req[r].pc = "handler"
    /\ LET contest == FindContest(req[r].contestId) IN
         IF contest = NullContest
         THEN req' = Respond(r, "TypeError")
         ELSE IF InsufficientBalance(req[r].userBalance, contest.entryFee)
         THEN req' = [Respond(r, "Insufficient balance")
                        EXCEPT ![r].contest = contest]
         ELSE req' = [Goto(r, "teamSave") EXCEPT ![r].contest = contest,
                                                 ![r].createdAt = Now]
    /\ UNCHANGED persisted

\* create-team going on without the Team having been stored
CreateTeamSaveSkipped(r) ==
    /\ req[r].route = "create-team"
    /\ req[r].pc = "teamSave"
    /\ req' = Goto(r, "userInc")
    /\ UNCHANGED persisted

CreateTeamSave(r) ==
    /\ req[r].route = "create-team"
    /\ req[r].pc = "teamSave"
    /\ teams' = teams \cup {NewTeam(r)}
    /\ req' = Goto(r, "userInc")
    /\ UNCHANGED <<balance, totalContests, joinedTeams, payments>>

\* the user update with the sign of the entry fee lost
CreateTeamIncUserCredit(r) ==
    /\ req[r].route = "create-team"
    /\ req[r].pc = "userInc"
    /\ balance' = [balance EXCEPT ![req[r].user] = @ + req[r].contest.entryFee]
    /\ totalContests' = [totalContests EXCEPT ![req[r].user] = @ + 1]
    /\ req' = Goto(r, "contestInc")
    /\ UNCHANGED <<joinedTeams, teams, payments>>

CreateTeamIncUser(r) ==
    /\ req[r].route = "create-team"
    /\ req[r].pc = "userInc"
    /\ balance' = [balance EXCEPT ![req[r].user] = @ - req[r].contest.entryFee]
    /\ totalContests' = [totalContests EXCEPT ![req[r].user] = @ + 1]
    /\ req' = Goto(r, "contestInc")
    /\ UNCHANGED <<joinedTeams, teams, payments>>

CreateTeamIncContest(r) ==
    /\ req[r].route = "create-team"
    /\ req[r].pc = "contestInc"
    /\ joinedTeams' = [joinedTeams EXCEPT ![req[r].contestId] = @ + 1]
    /\ req' = Respond(r, "Team created successfully")
    /\ UNCHANGED <<balance, totalContests, teams, payments>>

\* ---------------------------------------------------------------- withdraw

WithdrawCheck(r) ==
    /\ req[r].route = "withdraw"
    /\ req[r].pc = "handler"
    /\ IF BelowMinimum(req[r].amount)
       THEN req' = Respond(r, "Minimum withdrawal")
       ELSE IF InsufficientBalance(req[r].userBalance, req[r].amount)
       THEN req' = Respond(r, "Insufficient balance")
       ELSE req' = Goto(r, "debit")
    /\ UNCHANGED persisted

WithdrawDebit(r) ==
    /\ req[r].route = "withdraw"
    /\ req[r].pc = "debit"
    /\ balance' = [balance EXCEPT ![req[r].user] = @ - req[r].amount]
    /\ req' = Respond(r, "Withdrawal request submitted")
    /\ UNCHANGED <<totalContests, joinedTeams, teams, payments>>

\* The withdrawals kept for settlement.  The server has no collection for
\* them: the handler reads upiId, applies the $inc and stores nothing else.
PendingWithdrawals == {}

\* ------------------------------------------------------------------- crash

\* A handler stops at one of its awaits: the storage call rejects (the catch
\* block answers 500 and undoes nothing) or the process dies.
Crash(r) ==
    /\ req[r].pc \in {"paymentSave", "credit", "teamSave", "userInc",
                      "contestInc", "debit"}
    /\ req' = [req EXCEPT ![r].pc = "crashed", ![r].resp = "error 500"]
    /\ UNCHANGED persisted

\* ------------------------------------------------------------- leaderboard

\* Team.find({ contestId }).sort({ totalPoints: -1 }): the contest's Teams by
\* descending totalPoints; the store fixes no order among Teams of equal
\* totalPoints, so every such order is a possible answer.
SortedByPoints(cid) ==
    {s \in Orderings({t \in teams : t.contestId = cid}) :
        \A i, j \in 1..Len(s) : i < j => s[i].totalPoints >= s[j].totalPoints}

\* .limit(100), then rank = index + 1 on the documents in memory
Ranked(s) ==
    [i \in 1..(IF Len(s) < LeaderboardLimit THEN Len(s) ELSE LeaderboardLimit)
        |-> [team |-> s[i], rank |-> i]]

\* GET /api/leaderboard/:contestId needs no authentication and has one
\* await, the query; the ranks are set on the copies it returned.
Leaderboard(r) ==
    /\ r <= MaxBoardReqs
    /\ req[r].pc = "idle"
    /\ \A q \in Reqs : q < r => req[q].pc # "idle"
    /\ \E cid \in Contests : \E s \in SortedByPoints(cid) :
         req' = [req EXCEPT ![r] =
                   [IdleReq EXCEPT !.route = "leaderboard", !.pc = "done",
                                   !.contestId = cid, !.resp = "teams",
                                   !.result = Ranked(s)]]
    /\ UNCHANGED persisted

\* ----------------------------------------------------------- specification

Next ==
    \E r \in Reqs :
        \/ Authenticate(r)
        \/ CreateOrderSave(r)
        \/ VerifyFind(r)
        \/ VerifySave(r)
        \/ VerifyCredit(r)
        \/ CreateTeamFind(r)
        \/ CreateTeamSave(r)
        \/ CreateTeamIncUser(r)
        \/ CreateTeamIncContest(r)
        \/ WithdrawCheck(r)
        \/ WithdrawDebit(r)
        \/ Crash(r)

Spec == Init /\ [][Next]_vars

\* The server under join and withdrawal traffic only.
NextDebit ==
    \E r \in Reqs :
        \/ AuthenticateDebit(r)
        \/ CreateTeamFind(r)
        \/ CreateTeamSave(r)
        \/ CreateTeamIncUser(r)
        \/ CreateTeamIncContest(r)
        \/ WithdrawCheck(r)
        \/ WithdrawDebit(r)
        \/ Crash(r)

SpecDebit == Init /\ [][NextDebit]_vars

\* a step of request r's handler other than its arrival and its crash
HandlerStep(r) ==
    \/ CreateTeamFind(r)
    \/ CreateTeamSave(r)
    \/ CreateTeamIncUser(r)
    \/ CreateTeamIncContest(r)
    \/ WithdrawCheck(r)
    \/ WithdrawDebit(r)

\* The same, the event loop running every handler that can continue.
SpecDebitFair == SpecDebit /\ \A r \in Reqs : WF_vars(HandlerStep(r))

\* The server under order and payment-confirmation traffic only.
NextPay ==
    \E r \in Reqs :
        \/ AuthenticatePay(r)
        \/ CreateOrderSave(r)
        \/ VerifyFind(r)
        \/ VerifySave(r)
        \/ VerifyCredit(r)
        \/ Crash(r)

SpecPay == Init /\ [][NextPay]_vars

\* The server under joins with teams of every shape.
NextRoster ==
    \E r \in Reqs :
        \/ AuthenticateRoster(r)
        \/ CreateTeamFind(r)
        \/ CreateTeamSave(r)
        \/ CreateTeamIncUser(r)
        \/ CreateTeamIncContest(r)
        \/ Crash(r)

SpecRoster == Init /\ [][NextRoster]_vars

\* The server under joins and leaderboard reads.
NextBoard ==
    \E r \in Reqs :
        \/ AuthenticateBoard(r)
        \/ CreateTeamFind(r)
        \/ CreateTeamSave(r)
        \/ CreateTeamIncUser(r)
        \/ CreateTeamIncContest(r)
        \/ Leaderboard(r)
        \/ Crash(r)

SpecBoard == Init /\ [][NextBoard]_vars

\* ------------------------------------------------- vocabulary of the claims

Joins == {r \in Reqs : req[r].route = "create-team"}
Withdrawals == {r \in Reqs : req[r].route = "withdraw"}
Verifies == {r \in Reqs : req[r].route = "verify-payment"}

Succeeded(r) ==
    /\ req[r].pc = "done"
    /\ req[r].resp \in {"Team created successfully",
                        "Withdrawal request submitted", "Payment successful"}

\* no handler is between its first and its last step, and none has crashed
Quiescent == \A r \in Reqs : req[r].pc \in {"idle", "done"}

RECURSIVE Sum(_, _)
Sum(f, S) ==
    IF S = {} THEN 0
    ELSE LET x == CHOOSE y \in S : TRUE IN f[x] + Sum(f, S \ {x})

TeamsOf(a) == {t \in teams : t.userId = a}
TeamsIn(c) == {t \in teams : t.contestId = c}

\* ---------------------------------------------------------------------- C1

\* C1: in every reachable state, whatever the interleaving of join,
\* withdrawal and payment-confirmation handlers, every balance is >= 0.
BalanceNonNegative == \A a \in Accounts : balance[a] >= 0

\* ---------------------------------------------------------------------- C2

\* C2: joinedTeams <= maxTeams for every contest in every reachable state,
\* and a join that finds joinedTeams = maxTeams fails with ContestFull and
\* does not increment joinedTeams.
JoinedNeverExceedsMax ==
    /\ \A c \in Contests : joinedTeams[c] <= contestDocs[c].maxTeams
    /\ \A r \in Joins :
         (/\ req[r].contest # NullContest
          /\ req[r].contest.joinedTeams >= req[r].contest.maxTeams)
         => /\ req[r].pc = "done"
            /\ req[r].resp = "Contest full"

\* ---------------------------------------------------------------------- C3

\* C3: however often a confirmation of one order is delivered, the order's
\* amount is credited exactly once: when no handler is running, the balances
\* add up to the initial balances plus every Completed order's amount once,
\* less the entry fees and withdrawals debited.
ConfirmCreditsOnce ==
    Quiescent =>
        Sum(balance, Accounts) =
            Cardinality(Accounts) * InitialBalance
            + Sum([p \in payments |-> p.amount],
                  {p \in payments : p.status = "completed"})
            - Sum([r \in Reqs |-> req[r].contest.entryFee],
                  {r \in Joins : Succeeded(r)})
            - Sum([r \in Reqs |-> req[r].amount],
                  {r \in Withdrawals : Succeeded(r)})

\* ---------------------------------------------------------------------- C4

\* the joins on contest c that found one slot left on an active contest and
\* whose account could pay the entry fee
LastSlotJoins(c) ==
    {r \in Joins :
        /\ req[r].contest.id = c
        /\ req[r].contest.isActive
        /\ req[r].contest.maxTeams - req[r].contest.joinedTeams = 1
        /\ req[r].userBalance >= req[r].contest.entryFee}

\* C4: of the joins racing for the last slot of an active contest, each by an
\* account with sufficient balance, exactly one succeeds and every other one
\* fails with ContestFull.
LastSlotHasOneWinner ==
    \A c \in Contests :
        (/\ LastSlotJoins(c) # {}
         /\ \A r \in LastSlotJoins(c) : req[r].pc = "done")
        => /\ Cardinality({r \in LastSlotJoins(c) : Succeeded(r)}) = 1
           /\ \A r \in LastSlotJoins(c) :
                ~Succeeded(r) => req[r].resp = "Contest full"

\* ---------------------------------------------------------------------- C5

\* the ledger operations completed on account a: debits (joins, withdrawals)
\* that were granted or refused for lack of funds, and credits
LedgerOps(a) ==
    {r \in Reqs :
        /\ req[r].user = a
        /\ req[r].pc = "done"
        /\ \/ /\ r \in Joins \cup Withdrawals
              /\ \/ Succeeded(r)
                 \/ req[r].resp = "Insufficient balance"
           \/ r \in Verifies /\ Succeeded(r)}

OpAmount(r) ==
    IF r \in Joins THEN req[r].contest.entryFee
    ELSE IF r \in Withdrawals THEN req[r].amount
    ELSE req[r].payment.amount

\* The balance after applying the operations of s one at a time from bal, a
\* debit being granted exactly when the balance covers it; -1 when an
\* operation's recorded outcome differs from the one it has at its turn.
RECURSIVE Replay(_, _, _)
Replay(s, i, bal) ==
    IF bal < 0 \/ i > Len(s) THEN bal
    ELSE LET r == s[i] IN
         IF r \in Verifies THEN Replay(s, i + 1, bal + OpAmount(r))
         ELSE IF (bal >= OpAmount(r)) # Succeeded(r) THEN -1
         ELSE IF Succeeded(r) THEN Replay(s, i + 1, bal - OpAmount(r))
         ELSE Replay(s, i + 1, bal)

\* C5: the outcomes of the debits and credits on one account, and its final
\* balance, are those of applying the same operations one at a time in some
\* order, a debit succeeding only if the balance at its turn covers it.
LedgerSerializable ==
    Quiescent =>
        \A a \in Accounts :
            \E s \in Orderings(LedgerOps(a)) :
                Replay(s, 1, InitialBalance) = balance[a]

\* ---------------------------------------------------------------------- C7

\* C7: no observable state shows a join in part: every debit (counted by
\* totalContests, incremented with it) has its Team record and every Team
\* record its debit, and every slot taken has its Team record and every Team
\* record its slot.
JoinNeverPartial ==
    /\ \A a \in Accounts : totalContests[a] = Cardinality(TeamsOf(a))
    /\ \A c \in Contests : joinedTeams[c] = Cardinality(TeamsIn(c))

\* ---------------------------------------------------------------------- C8

VerifyInFlight(oid) ==
    \E r \in Verifies :
        /\ req[r].pc \in {"paymentSave", "credit"}
        /\ req[r].payment.orderId = oid

\* C8: the status change and the credit are one unit: once no confirmation
\* of an order is running (finished or crashed), its PaymentRecord is
\* Completed exactly if a confirmation credited it.
ConfirmAtomicUnderCrash ==
    \A p \in payments :
        ~VerifyInFlight(p.orderId) =>
            (p.status = "completed"
             <=> \E r \in Verifies :
                    Succeeded(r) /\ req[r].payment.orderId = p.orderId)

\* ---------------------------------------------------------------------- C6

\* C6: a join fails with InsufficientFunds ('Insufficient balance') exactly
\* when the balance the handler holds is below the entry fee; the step that
\* refuses it changes no balance, counter, contest or Team, and the refused
\* join has written no Team record.
JoinRefusedLeavesState ==
    /\ [](\A r \in Joins :
            /\ req[r].contest # NullContest =>
                 (req[r].resp = "Insufficient balance"
                  <=> req[r].userBalance < req[r].contest.entryFee)
            /\ req[r].resp = "Insufficient balance" =>
                 /\ req[r].pc = "done"
                 /\ \A t \in teams : t.id # r)
    /\ [][\A r \in Reqs :
            (/\ req'[r].route = "create-team"
             /\ req[r].resp = "none"
             /\ req'[r].resp = "Insufficient balance")
            => UNCHANGED persisted]_vars

\* a join was refused for lack of funds
JoinRefusedSeen ==
    \E r \in Joins :
        /\ req[r].resp = "Insufficient balance"
        /\ req[r].userBalance < req[r].contest.entryFee

\* ---------------------------------------------------------------------- C9

TeamOfJoin(r) ==
    [id |-> r, userId |-> req[r].user, contestId |-> req[r].contestId,
     players |-> req[r].team.players, captain |-> req[r].team.captain,
     viceCaptain |-> req[r].team.viceCaptain, totalPoints |-> 0,
     createdAt |-> req[r].createdAt]

\* what each writing step of join r does to the stored documents
JoinStepExact(r) ==
    /\ (req[r].pc = "teamSave" /\ req'[r].pc = "userInc") =>
         /\ TeamOfJoin(r) \notin teams
         /\ teams' = teams \cup {TeamOfJoin(r)}
         /\ UNCHANGED <<balance, totalContests, joinedTeams, payments>>
    /\ (req[r].pc = "userInc" /\ req'[r].pc = "contestInc") =>
         /\ balance' = [balance EXCEPT ![req[r].user] =
                           @ - contestDocs[req[r].contestId].entryFee]
         /\ totalContests' = [totalContests EXCEPT ![req[r].user] = @ + 1]
         /\ UNCHANGED <<joinedTeams, teams, payments>>
    /\ (req[r].pc = "contestInc" /\ req'[r].pc = "done") =>
         /\ joinedTeams' = [joinedTeams EXCEPT ![req[r].contestId] = @ + 1]
         /\ req'[r].resp = "Team created successfully"
         /\ UNCHANGED <<balance, totalContests, teams, payments>>

\* C9: a successful join debits exactly the entry fee from the joining
\* account, adds exactly 1 to its totalContests and to the contest's
\* joinedTeams and creates exactly one Team for (account, contest), changing
\* no other account or contest: each writing step does just that, a join
\* that answered success has gone through all of them, and with no handler
\* running every balance and counter is the sum of the successful
\* operations.
JoinAppliesExactly ==
    /\ [][\A r \in Joins : JoinStepExact(r)]_vars
    /\ [](\A r \in Joins :
            Succeeded(r) =>
                /\ req[r].userBalance >= req[r].contest.entryFee
                /\ Cardinality({t \in teams : t.id = r}) = 1
                /\ TeamOfJoin(r) \in teams)
    /\ [](Quiescent =>
            /\ \A a \in Accounts :
                 /\ totalContests[a] =
                      Cardinality({r \in Joins : Succeeded(r) /\ req[r].user = a})
                 /\ balance[a] = InitialBalance
                      - Sum([r \in Reqs |-> OpAmount(r)],
                            {r \in Joins \cup Withdrawals :
                                Succeeded(r) /\ req[r].user = a})
            /\ \A c \in Contests :
                 joinedTeams[c] =
                   Cardinality({r \in Joins : Succeeded(r) /\ req[r].contestId = c})
            /\ Cardinality(teams) = Cardinality({r \in Joins : Succeeded(r)}))

\* a join by an account that could pay, on an active contest with a free
\* slot, has succeeded
JoinSucceededSeen ==
    \E r \in Joins :
        /\ Succeeded(r)
        /\ req[r].contest.isActive
        /\ req[r].contest.joinedTeams < req[r].contest.maxTeams
        /\ balance[req[r].user] = InitialBalance - req[r].contest.entryFee
        /\ joinedTeams[req[r].contestId] = 1

\* --------------------------------------------------------------------- C10

\* C10: a withdrawal below the minimum (100) fails with BelowMinimum
\* ('Minimum withdrawal'), one of at least the minimum but above the balance
\* the handler holds fails with InsufficientFunds ('Insufficient balance'),
\* and the step that refuses changes nothing stored.
WithdrawRefusedLeavesState ==
    /\ [](\A r \in Withdrawals :
            req[r].pc # "handler" =>
                /\ req[r].amount < MinWithdrawal =>
                     req[r].pc = "done" /\ req[r].resp = "Minimum withdrawal"
                /\ (req[r].amount >= MinWithdrawal
                    /\ req[r].amount > req[r].userBalance) =>
                     req[r].pc = "done" /\ req[r].resp = "Insufficient balance")
    /\ [][\A r \in Reqs :
            (/\ req'[r].route = "withdraw"
             /\ req[r].resp = "none"
             /\ req'[r].resp \in {"Minimum withdrawal", "Insufficient balance"})
            => UNCHANGED persisted]_vars

\* both refusals of a withdrawal have happened
WithdrawRefusedSeen ==
    /\ \E r \in Withdrawals :
         req[r].amount < MinWithdrawal /\ req[r].resp = "Minimum withdrawal"
    /\ \E r \in Withdrawals :
         /\ req[r].amount >= MinWithdrawal
         /\ req[r].amount > req[r].userBalance
         /\ req[r].resp = "Insufficient balance"

\* --------------------------------------------------------------------- C11

\* C11: every successful withdrawal has debited exactly its amount and has
\* left a pending withdrawal record for its account and amount; the pending
\* records are as many as the successful withdrawal debits.
WithdrawalRecorded ==
    /\ \A r \in Withdrawals :
         Succeeded(r) =>
            \E w \in PendingWithdrawals :
                w.userId = req[r].user /\ w.amount = req[r].amount
    /\ Cardinality(PendingWithdrawals) =
         Cardinality({r \in Withdrawals : Succeeded(r)})

\* --------------------------------------------------------------------- C12

\* C12: no join succeeds on a contest that is not active: it is answered
\* ContestClosed, and the closed contest keeps its joinedTeams and gets no
\* Team.
ClosedContestRefusesJoin ==
    /\ \A r \in Joins :
         (req[r].contest # NullContest /\ ~req[r].contest.isActive) =>
            /\ req[r].pc = "done"
            /\ req[r].resp \in {"Contest closed", "Insufficient balance"}
    /\ \A c \in Contests :
         ~contestDocs[c].isActive =>
            joinedTeams[c] = 0 /\ TeamsIn(c) = {}

\* --------------------------------------------------------------------- C13

Orders == {r \in Reqs : req[r].route = "create-order"}

\* C13: a confirmation whose orderId matches no PaymentRecord is answered
\* OrderNotFound ('Payment not found') by a step that changes no balance
\* and no PaymentRecord; one whose orderId matches a record is not.
UnknownOrderRefused ==
    /\ [][\A r \in Reqs :
            (/\ req[r].route = "verify-payment"
             /\ req[r].pc = "handler"
             /\ req'[r].pc # "handler")
            => IF \E p \in payments : p.orderId = req[r].orderId
               THEN req'[r].resp # "Payment not found"
               ELSE /\ req'[r].pc = "done"
                    /\ req'[r].resp = "Payment not found"
                    /\ UNCHANGED persisted]_vars
    /\ [](\A r \in Verifies :
            req[r].resp = "Payment not found" =>
                req[r].pc = "done" /\ req[r].payment = NullPayment)

\* a confirmation was refused although some order exists
UnknownOrderSeen ==
    \E r \in Verifies :
        /\ req[r].resp = "Payment not found"
        /\ payments # {}
        /\ \A p \in payments : p.orderId # req[r].orderId

\* --------------------------------------------------------------------- C14

CreateOrderOnlyRecords ==
    /\ [][\A r \in Reqs :
            (/\ req[r].route = "create-order"
             /\ req[r].pc = "handler"
             /\ req'[r].pc = "done")
            => /\ payments \subseteq payments'
               /\ Cardinality(payments' \ payments) = 1
               /\ \A p \in payments' \ payments :
                    /\ p.userId = req[r].user
                    /\ p.amount = req[r].amount
                    /\ p.status = "created"
               /\ UNCHANGED <<balance, totalContests, joinedTeams, teams>>]_vars
    /\ [][balance' # balance =>
            \E r \in Reqs :
                /\ req[r].route = "verify-payment"
                /\ req[r].pc = "credit"
                /\ req'[r].pc = "done"
                /\ \E p \in payments :
                     /\ p.orderId = req[r].payment.orderId
                     /\ p.status = "completed"
                     /\ balance' =
                          [balance EXCEPT ![req[r].user] = @ + p.amount]]_vars

\* an order has been created and no balance has moved
OrderCreatedSeen ==
    /\ \E r \in Orders :
         /\ req[r].pc = "done"
         /\ \E p \in payments :
              /\ p.orderId = req[r].orderId
              /\ p.userId = req[r].user
              /\ p.status = "created"
    /\ \A a \in Accounts : balance[a] = InitialBalance

\* --------------------------------------------------------------------- C16

WellFormed(t) ==
    /\ t.captain \in t.players
    /\ t.viceCaptain \in t.players
    /\ t.captain # t.viceCaptain

\* C16: a join whose captain or vice-captain is not in its roster, or whose
\* captain is its vice-captain, is rejected before anything is written, so
\* every stored Team has distinct captain and vice-captain from its roster.
OnlyValidTeamsStored ==
    /\ \A r \in Joins :
         (~WellFormed(req[r].team) /\ req[r].pc # "handler") =>
            /\ req[r].pc = "done"
            /\ req[r].resp = "Invalid team"
    /\ \A t \in teams : WellFormed(t)

\* --------------------------------------------------------------------- C17

\* the contest's Teams by descending totalPoints, the earlier created first
\* among equals
ByPointsThenAge(cid) ==
    CHOOSE s \in Orderings(TeamsIn(cid)) :
        \A i, j \in 1..Len(s) :
            i < j => \/ s[i].totalPoints > s[j].totalPoints
                     \/ /\ s[i].totalPoints = s[j].totalPoints
                        /\ s[i].createdAt <= s[j].createdAt

\* C17: a leaderboard read returns all Teams of the contest by descending
\* totalPoints, ties by earliest creation, ranked 1..N in that order (so
\* the same on every read of unchanged data), and changes no stored Team.
LeaderboardByPointsThenAge ==
    [][\A r \in Reqs :
         (req[r].pc = "idle" /\ req'[r].route = "leaderboard") =>
            /\ req'[r].result =
                 [i \in 1..Cardinality(TeamsIn(req'[r].contestId)) |->
                    [team |-> ByPointsThenAge(req'[r].contestId)[i],
                     rank |-> i]]
            /\ UNCHANGED persisted]_vars

\* --------------------------------------------------------------------- C18

\* C18: once a join handler has crashed, the store eventually shows every
\* join whole again: each Team with its debit and its slot, no debit or
\* slot without its Team (the crashed join completed or rolled back).
JoinCrashRecovers ==
    \A r \in Reqs :
        (req[r].route = "create-team" /\ req[r].pc = "crashed")
            ~> JoinNeverPartial

\* --------------------------------------------------------------------- C19

\* C19: the crediting step of a confirmation changes the balance of no
\* account other than the owner of the PaymentRecord, whoever delivers it.
CreditGoesToOwner ==
    [][\A r \in Reqs :
         (/\ req[r].route = "verify-payment"
          /\ req[r].pc = "credit"
          /\ req'[r].pc = "done")
         => \A a \in Accounts :
                a # req[r].payment.userId => balance'[a] = balance[a]]_vars

\* --------------------------------------------------------------------- C20

JoinsSettled == \A r \in Joins : req[r].pc \in {"idle", "done"}

\* C20: a contest's joinedTeams never exceeds the number of its stored
\* Teams, and equals it whenever no join is running and none has crashed.
SlotsBackedByTeams ==
    \A c \in Contests :
        /\ joinedTeams[c] <= Cardinality(TeamsIn(c))
        /\ JoinsSettled => joinedTeams[c] = Cardinality(TeamsIn(c))

\* a slot is counted and its Team stored, with no join running
SlotWithTeamSeen ==
    /\ JoinsSettled
    /\ \E c \in Contests :
         joinedTeams[c] = 1 /\ Cardinality(TeamsIn(c)) = 1

====
